---- MODULE Spec2Model ----
(***************************************************************************)
(* The EED metric of torchmetrics/text/eed.py as a state machine.          *)
(*                                                                         *)
(* Every metric instance (a "worker" of the specification) carries its     *)
(* configuration (language, return_sentence_level_score, alpha, rho,       *)
(* deletion, insertion) and its three states (scores, total_num_sentences, *)
(* sentence_eed).  The operations are the constructor, update, compute,    *)
(* a read of the sentence_eed attribute, and the reduction of one          *)
(* instance's states into another's by the dist_reduce_fx each state was   *)
(* declared with.                                                          *)
(*                                                                         *)
(* Numbers.  A sentence score is a fixed-point number, k standing for      *)
(* k/Scale, so that sums are exact; the cost parameters are in tenths.     *)
(* A sentence pair of a batch is represented by the score the scorer       *)
(* gives it: a batch is a sequence of sentence scores.                     *)
(***************************************************************************)
EXTENDS Integers, Sequences, FiniteSets, TLC

VARIABLES
    constructed,                  \* w -> whether the instance exists
    language,                     \* self.language
    return_sentence_level_score,  \* self.return_sentence_level_score
    alpha, rho, deletion, insertion,
    scores,                       \* state "scores"
    total_num_sentences,          \* state "total_num_sentences"
    sentence_eed,                 \* state / class attribute "sentence_eed"
    ret,                          \* the last call and what it returned
    full, cut, pc,                \* the split scenario: batch, partition, progress
    hypothesis, references,       \* the scorer's inputs
    costs, sentence_score,        \* its cost parameters and what it returned
    iou_args, iou_ret, warnings   \* the iou wrapper: arguments, result, warnings

cfgvars == <<constructed, language, return_sentence_level_score,
             alpha, rho, deletion, insertion>>
accvars == <<scores, total_num_sentences, sentence_eed>>
splitvars == <<full, cut, pc>>
alignvars == <<hypothesis, references, costs, sentence_score>>
iouvars == <<iou_args, iou_ret, warnings>>
(* What the metric's methods leave alone *)
othervars == <<splitvars, alignvars, iouvars>>
vars == <<cfgvars, accvars, ret, splitvars, alignvars, iouvars>>

---------------------------------------------------------------------------
(* Bounds of the model *)

Scale == 1
MaxBatch == 2
MaxCorpus == 3
MaxFull == 3

(* The instances: the whole-batch one and the ones that are merged *)
Workers == {"A", "B", "C"}

ScoreSet == 0..Scale

RECURSIVE SeqsUpTo(_, _)
SeqsUpTo(S, n) ==
    IF n = 0 THEN {<< >>}
    ELSE LET r == SeqsUpTo(S, n - 1)
         IN  r \cup {Append(s, x) : s \in {t \in r : Len(t) = n - 1}, x \in S}

Batches == SeqsUpTo(ScoreSet, MaxBatch)

---------------------------------------------------------------------------
(* Program constants: the constructor's defaults, in tenths *)

DefaultAlpha == 20
DefaultRho == 3
DefaultDeletion == 2
DefaultInsertion == 10

DefaultCosts == <<DefaultAlpha, DefaultRho, DefaultDeletion, DefaultInsertion>>

SupportedLanguages == {"en", "ja"}

(* Optional[List]: None is the empty tuple, a list l is <<l>> *)
None == << >>
Some(l) == <<l>>
IsNone(x) == x = << >>

---------------------------------------------------------------------------
(* Values returned by calls *)

NoVal == [kind |-> "None", num |-> 0, den |-> 1, list |-> << >>]
ScalarVal(n, d) == [kind |-> "scalar", num |-> n, den |-> d, list |-> << >>]
ListVal(l) == [kind |-> "list", num |-> 0, den |-> 1, list |-> l]
ErrVal(e) == [kind |-> e, num |-> 0, den |-> 1, list |-> << >>]

Call(op, w, o, arg, val) == [op |-> op, w |-> w, o |-> o, arg |-> arg, val |-> val]

RECURSIVE GCD(_, _)
GCD(a, b) == IF b = 0 THEN a ELSE GCD(b, a % b)

RECURSIVE SumSeq(_)
SumSeq(s) == IF s = << >> THEN 0 ELSE Head(s) + SumSeq(Tail(s))

Cur == [scores |-> scores,
        total_num_sentences |-> total_num_sentences,
        sentence_eed |-> sentence_eed]

RECURSIVE SumOver(_, _)
SumOver(f, S) ==
    IF S = {} THEN 0
    ELSE LET x == CHOOSE y \in S : TRUE IN f[x] + SumOver(f, S \ {x})

(* Sentences held by all instances together: what the bound MaxCorpus caps *)
Corpus == SumOver(total_num_sentences, Workers)

---------------------------------------------------------------------------
(* EED.__init__ *)

EED_init(w, lang, flag, a, r, d, i) ==
    /\ ~constructed[w]
    /\ IF lang \notin SupportedLanguages
       THEN /\ ret' = Call("__init__", w, w, << >>, ErrVal("ValueError"))
            /\ UNCHANGED <<cfgvars, accvars>>
       ELSE /\ constructed' = [constructed EXCEPT ![w] = TRUE]
            /\ language' = [language EXCEPT ![w] = lang]
            /\ return_sentence_level_score' =
                   [return_sentence_level_score EXCEPT ![w] = flag]
            /\ alpha' = [alpha EXCEPT ![w] = a]
            /\ rho' = [rho EXCEPT ![w] = r]
            /\ deletion' = [deletion EXCEPT ![w] = d]
            /\ insertion' = [insertion EXCEPT ![w] = i]
            /\ scores' = [scores EXCEPT ![w] = 0]
            /\ total_num_sentences' = [total_num_sentences EXCEPT ![w] = 0]
            /\ sentence_eed' =
                   [sentence_eed EXCEPT ![w] = IF flag THEN Some(<< >>) ELSE None]
            /\ ret' = Call("__init__", w, w, << >>, NoVal)

---------------------------------------------------------------------------
(* EED.update *)

(* A sentence pair whose list of references is empty, which the scorer     *)
(* rejects                                                                 *)
NoReference == 0 - 1

eed_raises(batch) == \E i \in 1..Len(batch) : batch[i] = NoReference

(* The sentences of a batch before the first one that is rejected *)
RECURSIVE GoodPrefix(_)
GoodPrefix(batch) ==
    IF batch = << >> \/ Head(batch) = NoReference THEN << >>
    ELSE <<Head(batch)>> \o GoodPrefix(Tail(batch))

(* _eed_update: the batch's sum of sentence scores, its number of          *)
(* sentences and the sentence scores in the order submitted                *)
eed_update(batch, flag) ==
    [scores |-> SumSeq(batch),
     total_num_sentences |-> Len(batch),
     sentence_eed |-> IF flag THEN batch ELSE << >>]

(* update with "total_num_sentences = ..." in place of "+=" *)
update_state_assign(S, w, batch) ==
    LET flag == return_sentence_level_score[w]
        r == eed_update(batch, flag)
    IN  [scores |-> [S.scores EXCEPT ![w] = @ + r.scores],
         total_num_sentences |->
             [S.total_num_sentences EXCEPT ![w] = r.total_num_sentences],
         sentence_eed |->
             IF flag = TRUE
             THEN [S.sentence_eed EXCEPT ![w] = Some(@[1] \o r.sentence_eed)]
             ELSE S.sentence_eed]

(* update counting one per call in place of one per sentence *)
update_state_percall(S, w, batch) ==
    LET flag == return_sentence_level_score[w]
        r == eed_update(batch, flag)
    IN  [scores |-> [S.scores EXCEPT ![w] = @ + r.scores],
         total_num_sentences |-> [S.total_num_sentences EXCEPT ![w] = @ + 1],
         sentence_eed |->
             IF flag = TRUE
             THEN [S.sentence_eed EXCEPT ![w] = Some(@[1] \o r.sentence_eed)]
             ELSE S.sentence_eed]

(* update putting the batch in front of the list in place of extending it *)
update_state_prepend(S, w, batch) ==
    LET flag == return_sentence_level_score[w]
        r == eed_update(batch, flag)
    IN  [scores |-> [S.scores EXCEPT ![w] = @ + r.scores],
         total_num_sentences |->
             [S.total_num_sentences EXCEPT ![w] = @ + r.total_num_sentences],
         sentence_eed |->
             IF flag = TRUE
             THEN [S.sentence_eed EXCEPT ![w] = Some(r.sentence_eed \o @[1])]
             ELSE S.sentence_eed]

(* update extending one list shared by every tracking instance *)
update_state_shared(S, w, batch) ==
    LET flag == return_sentence_level_score[w]
        r == eed_update(batch, flag)
    IN  [scores |-> [S.scores EXCEPT ![w] = @ + r.scores],
         total_num_sentences |->
             [S.total_num_sentences EXCEPT ![w] = @ + r.total_num_sentences],
         sentence_eed |->
             IF flag = TRUE
             THEN [v \in DOMAIN S.sentence_eed |->
                       IF IsNone(S.sentence_eed[v]) THEN S.sentence_eed[v]
                       ELSE Some(S.sentence_eed[v][1] \o r.sentence_eed)]
             ELSE S.sentence_eed]

(* update counting the sentence scores returned in place of the count *)
update_state_listcount(S, w, batch) ==
    LET flag == return_sentence_level_score[w]
        r == eed_update(batch, flag)
    IN  [scores |-> [S.scores EXCEPT ![w] = @ + r.scores],
         total_num_sentences |->
             [S.total_num_sentences EXCEPT ![w] = @ + Len(r.sentence_eed)],
         sentence_eed |->
             IF flag = TRUE
             THEN [S.sentence_eed EXCEPT ![w] = Some(@[1] \o r.sentence_eed)]
             ELSE S.sentence_eed]

update_state(S, w, batch) ==
    LET flag == return_sentence_level_score[w]
        r == eed_update(batch, flag)
    IN  [scores |-> [S.scores EXCEPT ![w] = @ + r.scores],
         total_num_sentences |->
             [S.total_num_sentences EXCEPT ![w] = @ + r.total_num_sentences],
         sentence_eed |->
             IF flag = TRUE
             THEN [S.sentence_eed EXCEPT ![w] = Some(@[1] \o r.sentence_eed)]
             ELSE S.sentence_eed]

(* update catching the scorer's error and returning as if nothing happened *)
update_swallow(w, batch) ==
    /\ constructed[w]
    /\ IF eed_raises(batch)
       THEN /\ ret' = Call("update", w, w, batch, NoVal)
            /\ UNCHANGED accvars
       ELSE /\ LET S == update_state(Cur, w, batch)
               IN  /\ scores' = S.scores
                   /\ total_num_sentences' = S.total_num_sentences
                   /\ sentence_eed' = S.sentence_eed
            /\ ret' = Call("update", w, w, batch, NoVal)
    /\ UNCHANGED cfgvars

(* update adding every sentence as it is scored, up to the one that fails *)
update_nonatomic(w, batch) ==
    /\ constructed[w]
    /\ IF eed_raises(batch)
       THEN /\ LET S == update_state(Cur, w, GoodPrefix(batch))
               IN  /\ scores' = S.scores
                   /\ total_num_sentences' = S.total_num_sentences
                   /\ sentence_eed' = S.sentence_eed
            /\ ret' = Call("update", w, w, batch, ErrVal("InvalidArgument"))
       ELSE /\ LET S == update_state(Cur, w, batch)
               IN  /\ scores' = S.scores
                   /\ total_num_sentences' = S.total_num_sentences
                   /\ sentence_eed' = S.sentence_eed
            /\ ret' = Call("update", w, w, batch, NoVal)
    /\ UNCHANGED cfgvars

(* update storing a cost parameter back into the instance *)
update_reconfigures(w, batch) ==
    /\ constructed[w]
    /\ IF eed_raises(batch)
       THEN /\ ret' = Call("update", w, w, batch, ErrVal("InvalidArgument"))
            /\ UNCHANGED accvars
       ELSE /\ LET S == update_state(Cur, w, batch)
               IN  /\ scores' = S.scores
                   /\ total_num_sentences' = S.total_num_sentences
                   /\ sentence_eed' = S.sentence_eed
            /\ ret' = Call("update", w, w, batch, NoVal)
    /\ alpha' = [alpha EXCEPT ![w] = 0]
    /\ UNCHANGED <<constructed, language, return_sentence_level_score,
                   rho, deletion, insertion>>

(* The call of _eed_update comes first: when it raises, nothing is assigned *)
update(w, batch) ==
    /\ constructed[w]
    /\ IF eed_raises(batch)
       THEN /\ ret' = Call("update", w, w, batch, ErrVal("InvalidArgument"))
            /\ UNCHANGED accvars
       ELSE /\ LET S == update_state(Cur, w, batch)
               IN  /\ scores' = S.scores
                   /\ total_num_sentences' = S.total_num_sentences
                   /\ sentence_eed' = S.sentence_eed
            /\ ret' = Call("update", w, w, batch, NoVal)
    /\ UNCHANGED cfgvars

---------------------------------------------------------------------------
(* EED.compute *)

(* _eed_compute: scores / total_num_sentences as a reduced fraction, and   *)
(* the explicit zero-count outcome                                         *)
eed_compute(s, n) ==
    IF n = 0 THEN ErrVal("DivisionUndefined")
    ELSE LET g == GCD(s, Scale * n)
         IN  ScalarVal(s \div g, (Scale * n) \div g)

compute_value(w) ==
    IF return_sentence_level_score[w] = TRUE
    THEN ListVal(sentence_eed[w][1])
    ELSE eed_compute(scores[w], total_num_sentences[w])

(* compute clearing the states it has read *)
compute_reset(w) ==
    /\ constructed[w]
    /\ ret' = Call("compute", w, w, << >>, compute_value(w))
    /\ scores' = [scores EXCEPT ![w] = 0]
    /\ total_num_sentences' = [total_num_sentences EXCEPT ![w] = 0]
    /\ sentence_eed' =
           [sentence_eed EXCEPT ![w] = IF IsNone(@) THEN None ELSE Some(<< >>)]
    /\ UNCHANGED cfgvars

compute(w) ==
    /\ constructed[w]
    /\ ret' = Call("compute", w, w, << >>, compute_value(w))
    /\ UNCHANGED <<cfgvars, accvars>>

(* A read of the attribute sentence_eed: the class attribute None unless   *)
(* the constructor added the state                                         *)
read_sentence_eed(w) ==
    /\ constructed[w]
    /\ ret' = Call("sentence_eed", w, w, << >>,
                   IF IsNone(sentence_eed[w]) THEN NoVal
                   ELSE ListVal(sentence_eed[w][1]))
    /\ UNCHANGED <<cfgvars, accvars>>

---------------------------------------------------------------------------
(* The reduction of another instance's states into this one's *)

(* "scores" declared with the mean in place of the sum *)
scores_dist_reduce_fx_mean == "mean"

scores_dist_reduce_fx == "sum"
total_num_sentences_dist_reduce_fx == "sum"
sentence_eed_dist_reduce_fx == "cat"

Reduce(fx, x, y) ==
    CASE fx = "sum" -> x + y
      [] fx = "mean" -> (x + y) \div 2
      [] fx = "max" -> IF x >= y THEN x ELSE y
      [] fx = "min" -> IF x <= y THEN x ELSE y
      [] fx = "cat" -> x \o y

merge_state(S, w, o) ==
    [scores |->
         [S.scores EXCEPT ![w] = Reduce(scores_dist_reduce_fx, @, S.scores[o])],
     total_num_sentences |->
         [S.total_num_sentences EXCEPT
              ![w] = Reduce(total_num_sentences_dist_reduce_fx, @,
                            S.total_num_sentences[o])],
     sentence_eed |->
         IF IsNone(S.sentence_eed[w]) \/ IsNone(S.sentence_eed[o])
         THEN S.sentence_eed
         ELSE [S.sentence_eed EXCEPT
                   ![w] = Some(Reduce(sentence_eed_dist_reduce_fx, @[1],
                                      S.sentence_eed[o][1]))]]

(* Another instance that holds the same states can be reduced into this one *)
Mergeable(w, o) ==
    /\ w # o
    /\ constructed[w]
    /\ constructed[o]
    /\ return_sentence_level_score[w] = return_sentence_level_score[o]

merge(w, o) ==
    /\ Mergeable(w, o)
    /\ LET S == merge_state(Cur, w, o)
       IN  /\ scores' = S.scores
           /\ total_num_sentences' = S.total_num_sentences
           /\ sentence_eed' = S.sentence_eed
    /\ ret' = Call("merge", w, o, << >>, NoVal)
    /\ UNCHANGED cfgvars

---------------------------------------------------------------------------
(* The specification of the instances' life *)

Fresh(v) == [w \in Workers |-> v]

InitCore ==
    /\ constructed = Fresh(FALSE)
    /\ language = Fresh("")
    /\ return_sentence_level_score = Fresh(FALSE)
    /\ alpha = Fresh(0)
    /\ rho = Fresh(0)
    /\ deletion = Fresh(0)
    /\ insertion = Fresh(0)
    /\ scores = Fresh(0)
    /\ total_num_sentences = Fresh(0)
    /\ sentence_eed = Fresh(None)
    /\ ret = Call("", "A", "A", << >>, NoVal)

InitSplitIdle ==
    /\ full = << >>
    /\ cut = << >>
    /\ pc = Fresh("idle")

(* No sentence scored *)
InitAlignIdle ==
    /\ hypothesis = << >>
    /\ references = << >>
    /\ costs = DefaultCosts
    /\ sentence_score = NoVal

(* No call of iou *)
InitIouIdle ==
    /\ iou_args = << >>
    /\ iou_ret = << >>
    /\ warnings = << >>

Init == InitCore /\ InitSplitIdle /\ InitAlignIdle /\ InitIouIdle

Next ==
    \/ \E w \in Workers, flag \in BOOLEAN :
           /\ EED_init(w, "en", flag, DefaultAlpha, DefaultRho,
                       DefaultDeletion, DefaultInsertion)
           /\ UNCHANGED othervars
    \/ \E w \in Workers, batch \in Batches :
           /\ Corpus + Len(batch) <= MaxCorpus
           /\ update(w, batch)
           /\ UNCHANGED othervars
    \/ \E w \in Workers, o \in Workers :
           /\ Corpus + total_num_sentences[o] <= MaxCorpus
           /\ merge(w, o)
           /\ UNCHANGED othervars
    \/ \E w \in Workers : compute(w) /\ UNCHANGED othervars
    \/ \E w \in Workers : read_sentence_eed(w) /\ UNCHANGED othervars

Spec == Init /\ [][Next]_vars

---------------------------------------------------------------------------
(* The specification of construction: one instance, every choice of        *)
(* language and cost parameters                                            *)

Languages == SupportedLanguages \cup {"fr"}

(* The defaults, a negative jump penalty, a negative deletion cost *)
CostChoices ==
    {DefaultCosts,
     <<-DefaultAlpha, DefaultRho, DefaultDeletion, DefaultInsertion>>,
     <<DefaultAlpha, DefaultRho, -DefaultDeletion, DefaultInsertion>>}

ConfigWorkers == {"A"}

(* Batches with a sentence pair that has no reference *)
BadBatches ==
    {b \in SeqsUpTo(ScoreSet \cup {NoReference}, MaxBatch) : eed_raises(b)}

NextConfig ==
    \/ \E w \in ConfigWorkers, lang \in Languages, flag \in BOOLEAN,
          c \in CostChoices :
           /\ EED_init(w, lang, flag, c[1], c[2], c[3], c[4])
           /\ UNCHANGED othervars
    \/ \E w \in ConfigWorkers, batch \in Batches \cup BadBatches :
           /\ Corpus + Len(batch) <= MaxCorpus
           /\ update(w, batch)
           /\ UNCHANGED othervars
    \/ \E w \in ConfigWorkers : compute(w) /\ UNCHANGED othervars
    \/ \E w \in ConfigWorkers : read_sentence_eed(w) /\ UNCHANGED othervars

SpecConfig == Init /\ [][NextConfig]_vars

---------------------------------------------------------------------------
(* The specification of a split batch: instance A is updated with the      *)
(* whole batch, every other instance with its part of it, and the parts    *)
(* are merged into one instance                                            *)

Whole == "A"
Parts == Workers \ {Whole}

FullBatches == SeqsUpTo(ScoreSet, MaxFull)

RECURSIVE PartFrom(_, _, _, _)
PartFrom(s, c, p, i) ==
    IF i > Len(s) THEN << >>
    ELSE IF c[i] = p THEN <<s[i]>> \o PartFrom(s, c, p, i + 1)
         ELSE PartFrom(s, c, p, i + 1)

(* The sentences of the batch that the partition gives to instance p *)
Part(p) == PartFrom(full, cut, p, 1)

(* Replicas: every instance constructed with the same arguments *)
InitReplicas ==
    /\ \E flag \in BOOLEAN :
           /\ return_sentence_level_score = Fresh(flag)
           /\ sentence_eed = Fresh(IF flag THEN Some(<< >>) ELSE None)
    /\ constructed = Fresh(TRUE)
    /\ language = Fresh("en")
    /\ alpha = Fresh(DefaultAlpha)
    /\ rho = Fresh(DefaultRho)
    /\ deletion = Fresh(DefaultDeletion)
    /\ insertion = Fresh(DefaultInsertion)
    /\ scores = Fresh(0)
    /\ total_num_sentences = Fresh(0)
    /\ ret = Call("", "A", "A", << >>, NoVal)

InitSplit ==
    /\ InitReplicas
    /\ InitAlignIdle
    /\ InitIouIdle
    /\ full \in FullBatches
    /\ cut \in [1..Len(full) -> Parts]
    /\ pc = Fresh("new")

SplitWhole ==
    /\ pc[Whole] = "new"
    /\ update(Whole, full)
    /\ pc' = [pc EXCEPT ![Whole] = "done"]
    /\ UNCHANGED <<full, cut, alignvars, iouvars>>

SplitPart(p) ==
    /\ pc[p] = "new"
    /\ update(p, Part(p))
    /\ pc' = [pc EXCEPT ![p] = "updated"]
    /\ UNCHANGED <<full, cut, alignvars, iouvars>>

(* One part absorbs another; the last one left holds them all *)
SplitMerge(t, o) ==
    /\ \A p \in Parts : pc[p] \in {"updated", "absorbed"}
    /\ pc[t] = "updated"
    /\ pc[o] = "updated"
    /\ merge(t, o)
    /\ pc' = [pc EXCEPT ![o] = "absorbed"]
    /\ UNCHANGED <<full, cut, alignvars, iouvars>>

SplitFinish(t) ==
    /\ pc[t] = "updated"
    /\ \A p \in Parts \ {t} : pc[p] = "absorbed"
    /\ compute(t)
    /\ pc' = [pc EXCEPT ![t] = "done"]
    /\ UNCHANGED <<full, cut, alignvars, iouvars>>

NextSplit ==
    \/ SplitWhole
    \/ \E p \in Parts : SplitPart(p)
    \/ \E t \in Parts, o \in Parts : SplitMerge(t, o)
    \/ \E t \in Parts : SplitFinish(t)

SpecSplit == InitSplit /\ [][NextSplit]_vars

---------------------------------------------------------------------------
(* The specification of the orders of calls: replicas that are updated and *)
(* merged in any order                                                     *)

NextOrder ==
    \/ \E w \in Workers, batch \in Batches :
           /\ Corpus + Len(batch) <= MaxCorpus
           /\ update(w, batch)
           /\ UNCHANGED othervars
    \/ \E w \in Workers, o \in Workers :
           /\ Corpus + total_num_sentences[o] <= MaxCorpus
           /\ merge(w, o)
           /\ UNCHANGED othervars

InitOrder ==
    /\ InitReplicas
    /\ InitSplitIdle
    /\ InitAlignIdle
    /\ InitIouIdle

SpecOrder == InitOrder /\ [][NextOrder]_vars

---------------------------------------------------------------------------
(* Helpers of the properties *)

Tracking(w) == constructed[w] /\ return_sentence_level_score[w] = TRUE

(* The per-sentence list of a tracking instance *)
List(w) == sentence_eed[w][1]

IsPrefix(s, t) == Len(s) <= Len(t) /\ SubSeq(t, 1, Len(s)) = s
IsSuffix(s, t) == Len(s) <= Len(t) /\ SubSeq(t, Len(t) - Len(s) + 1, Len(t)) = s

(* The multiset of a list: how often each score occurs in it *)
SeqBag(s) == [x \in ScoreSet |-> Cardinality({i \in 1..Len(s) : s[i] = x})]

OptBag(x) == IF IsNone(x) THEN None ELSE Some(SeqBag(x[1]))

(* Instance a in S1 and instance b in S2 hold the same totals and the      *)
(* same multiset of sentence scores                                        *)
SameState(S1, a, S2, b) ==
    /\ S1.scores[a] = S2.scores[b]
    /\ S1.total_num_sentences[a] = S2.total_num_sentences[b]
    /\ \/ S1.sentence_eed[a] = S2.sentence_eed[b]
       \/ OptBag(S1.sentence_eed[a]) = OptBag(S2.sentence_eed[b])

---------------------------------------------------------------------------
(* C1: in every reachable state, an instance constructed with              *)
(* return_sentence_level_score holds a sentence_eed list whose length is   *)
(* its total_num_sentences                                                 *)
C1_LengthInvariant ==
    \A w \in Workers :
        Tracking(w) =>
            /\ ~IsNone(sentence_eed[w])
            /\ Len(List(w)) = total_num_sentences[w]

(* a tracking instance just merged with another, both updated before *)
C1_Witness ==
    /\ ret.op = "merge"
    /\ ret.w # ret.o
    /\ Tracking(ret.w)
    /\ total_num_sentences[ret.o] >= 1
    /\ total_num_sentences[ret.w] >= 2
    /\ Len(List(ret.w)) = total_num_sentences[ret.w]

(* C2 (as stated): compute on an instance with total_num_sentences > 0     *)
(* returns scores / total_num_sentences, whether or not the instance       *)
(* tracks sentence scores                                                  *)
C2_ComputeIsMean ==
    (ret.op = "compute" /\ total_num_sentences[ret.w] > 0) =>
        ret.val = eed_compute(scores[ret.w], total_num_sentences[ret.w])

(* C3: once the whole batch went to A and its parts went to the other      *)
(* instances and were merged into one, that one holds the same scores and  *)
(* total_num_sentences as A, hence the same corpus score                   *)
C3_SplitEquivalence ==
    \A t \in Parts :
        (pc[Whole] = "done" /\ pc[t] = "done") =>
            /\ scores[t] = scores[Whole]
            /\ total_num_sentences[t] = total_num_sentences[Whole]
            /\ eed_compute(scores[t], total_num_sentences[t]) =
                   eed_compute(scores[Whole], total_num_sentences[Whole])

(* a batch of two or more sentences, every part non-empty, all merged *)
C3_Witness ==
    /\ pc[Whole] = "done"
    /\ \E t \in Parts : pc[t] = "done"
    /\ Len(full) >= 2
    /\ \A p \in Parts : Part(p) # << >>
    /\ scores[Whole] > 0

(* C4: merging is commutative and associative on the totals and on the     *)
(* multiset of sentence scores, for the states of any three instances      *)
C4_MergeAlgebra ==
    \A a \in Workers, b \in Workers, c \in Workers :
        (a # b /\ b # c /\ a # c /\ Mergeable(a, b) /\ Mergeable(b, c)) =>
            /\ SameState(merge_state(Cur, a, b), a, merge_state(Cur, b, a), b)
            /\ SameState(merge_state(merge_state(Cur, a, b), a, c), a,
                         merge_state(merge_state(Cur, b, c), a, b), a)

(* three instances that can be merged, each holding sentences, with         *)
(* different scores                                                        *)
C4_Witness ==
    /\ \A w \in Workers : constructed[w] /\ total_num_sentences[w] >= 1
    /\ Mergeable("A", "B")
    /\ Mergeable("B", "C")
    /\ scores["A"] # scores["B"]

(* C5: compute and the attribute read leave scores, total_num_sentences    *)
(* and sentence_eed as they were; only the constructor, update and merge   *)
(* change them; and compute called twice in a row returns the same value   *)
C5_ComputePure ==
    [][/\ (ret'.op \in {"compute", "sentence_eed"}) => UNCHANGED accvars
       /\ (accvars' # accvars) => ret'.op \in {"__init__", "update", "merge"}
       /\ (ret.op = "compute" /\ ret'.op = "compute" /\ ret'.w = ret.w)
              => ret'.val = ret.val]_vars

(* compute called mid-stream, on an instance that holds sentences *)
C5_Witness ==
    /\ ret.op = "compute"
    /\ total_num_sentences[ret.w] >= 1
    /\ Corpus < MaxCorpus

(* C6 (as stated): compute on an instance that holds no sentence gives     *)
(* the explicit zero-count outcome                                         *)
C6_ZeroCountPolicy ==
    (ret.op = "compute" /\ total_num_sentences[ret.w] = 0) =>
        ret.val.kind = "DivisionUndefined"

(* C7 (as stated): asking an instance that does not track sentence scores  *)
(* for them fails with FeatureNotEnabled                                   *)
C7_FeatureNotEnabled ==
    (ret.op = "sentence_eed" /\ ~Tracking(ret.w)) =>
        ret.val.kind = "FeatureNotEnabled"

(* C8 (as stated): no instance that performs an update has a language      *)
(* outside {en, ja} or a negative cost parameter                           *)
C8_ValidConfiguration ==
    ret.op = "update" =>
        /\ language[ret.w] \in SupportedLanguages
        /\ alpha[ret.w] >= 0
        /\ rho[ret.w] >= 0
        /\ deletion[ret.w] >= 0
        /\ insertion[ret.w] >= 0

---------------------------------------------------------------------------
(* Orders of calls *)

(* The batches of the calls that are reordered: none, one sentence, and a  *)
(* batch of two sentences with different scores                            *)
OrderBatches == {b \in Batches : Len(b) <= 1} \cup {<<0, Scale>>}

Calls ==
    [op : {"update"}, w : Workers, o : {"A"}, arg : OrderBatches]
        \cup [op : {"merge"}, w : Workers, o : Workers, arg : {<< >>}]

Defined(c) ==
    IF c.op = "update" THEN constructed[c.w] ELSE Mergeable(c.w, c.o)

Apply(S, c) ==
    IF c.op = "update" THEN update_state(S, c.w, c.arg)
    ELSE merge_state(S, c.w, c.o)

(* Executing c1 then c2, or c2 then c1, leaves every instance with the     *)
(* same totals and the same multiset of sentence scores                    *)
Commute(c1, c2) ==
    LET S12 == Apply(Apply(Cur, c1), c2)
        S21 == Apply(Apply(Cur, c2), c1)
    IN  S12 = S21 \/ \A w \in Workers : SameState(S12, w, S21, w)

(* Neither call changes the instance the other one, a merge, reads *)
Independent(c1, c2) ==
    /\ c1.op = "merge" => c2.w # c1.o
    /\ c2.op = "merge" => c1.w # c2.o

(* C9 (as stated): any two calls can be executed in either order *)
C9_AnyOrder ==
    \A c1 \in Calls, c2 \in Calls :
        (Defined(c1) /\ Defined(c2)) => Commute(c1, c2)

(* C9 (amended): any two calls can be executed in either order unless one  *)
(* of them changes the instance the other merges from                      *)
C9_IndependentOrder ==
    \A c1 \in Calls, c2 \in Calls :
        (Independent(c1, c2) /\ Defined(c1) /\ Defined(c2)) => Commute(c1, c2)

(* an instance that was updated and merged into, with a third to merge *)
C9_Witness ==
    /\ ret.op = "merge"
    /\ total_num_sentences[ret.w] >= 2
    /\ \E w \in Workers : total_num_sentences[w] = 0

(* C10: an update extends the instance's list by the batch, in the order   *)
(* submitted; a merge keeps the instance's list as the head of the new     *)
(* list and the other instance's list, in its order, as the tail; nothing  *)
(* else changes a list                                                     *)
C10_OrderPreserved ==
    [][\A w \in Workers :
          (Tracking(w) /\ Tracking(w)') =>
              /\ (ret'.op = "update" /\ ret'.w = w)
                     => List(w)' = List(w) \o ret'.arg
              /\ (ret'.op = "merge" /\ ret'.w = w)
                     => /\ IsPrefix(List(w), List(w)')
                        /\ IsSuffix(List(ret'.o), List(w)')
                        /\ Len(List(w)') = Len(List(w)) + Len(List(ret'.o))
              /\ ~(ret'.op \in {"update", "merge"} /\ ret'.w = w)
                     => List(w)' = List(w)]_vars

(* a list built by updates of different scores and a merge *)
C10_Witness ==
    /\ ret.op = "merge"
    /\ ret.w # ret.o
    /\ Tracking(ret.w)
    /\ Len(List(ret.o)) >= 1
    /\ Len(List(ret.w)) > Len(List(ret.o))
    /\ \E i \in 1..Len(List(ret.w)) : List(ret.w)[i] # List(ret.w)[1]

---------------------------------------------------------------------------
(* The three states of one instance *)
StateOf(w) == <<scores[w], total_num_sentences[w], sentence_eed[w]>>

(* The configuration of one instance *)
ConfigOf(w) ==
    <<language[w], return_sentence_level_score[w],
      alpha[w], rho[w], deletion[w], insertion[w]>>

(* C11: a call on one instance leaves the scores, total_num_sentences and  *)
(* sentence_eed of every other instance as they were; a merge changes the  *)
(* instance it merges into and nothing else                                *)
C11_WorkerIsolation ==
    [][\A w \in Workers : ret'.w # w => StateOf(w)' = StateOf(w)]_vars

(* an update of a tracking instance beside another tracking instance that  *)
(* holds sentences                                                         *)
C11_Witness ==
    /\ ret.op = "update"
    /\ Len(ret.arg) >= 1
    /\ Tracking(ret.w)
    /\ \E w \in Workers \ {ret.w} :
           /\ Tracking(w)
           /\ total_num_sentences[w] >= 1
           /\ List(w) # List(ret.w)

(* C14: an update whose batch holds a sentence pair without references     *)
(* fails with InvalidArgument at that very call, every other update        *)
(* succeeds, and no later compute reports the error                        *)
C14_EmptyReferencesRejected ==
    /\ ret.op = "update" =>
           (eed_raises(ret.arg) <=> ret.val = ErrVal("InvalidArgument"))
    /\ ret.op = "update" => (~eed_raises(ret.arg) <=> ret.val = NoVal)
    /\ ret.op \in {"compute", "sentence_eed"} =>
           ret.val.kind # "InvalidArgument"

(* a rejected batch whose first sentence pair is a good one *)
C14_Witness ==
    /\ ret.op = "update"
    /\ ret.val = ErrVal("InvalidArgument")
    /\ Len(ret.arg) >= 2
    /\ ret.arg[1] # NoReference

(* C17: an update that fails leaves scores, total_num_sentences and        *)
(* sentence_eed as they were, and an update that succeeds adds the whole   *)
(* batch to all of them                                                    *)
C17_UpdateAtomic ==
    [][\A w \in Workers :
          (ret'.op = "update" /\ ret'.w = w) =>
              IF ret'.val = NoVal
              THEN /\ scores'[w] = scores[w] + SumSeq(ret'.arg)
                   /\ total_num_sentences'[w] =
                          total_num_sentences[w] + Len(ret'.arg)
                   /\ Tracking(w) => List(w)' = List(w) \o ret'.arg
              ELSE UNCHANGED accvars]_vars

(* a failed update, after good sentences, of a tracking instance that      *)
(* holds sentences                                                         *)
C17_Witness ==
    /\ ret.op = "update"
    /\ ret.val.kind = "InvalidArgument"
    /\ GoodPrefix(ret.arg) # << >>
    /\ Tracking(ret.w)
    /\ total_num_sentences[ret.w] >= 1
    /\ Len(List(ret.w)) = total_num_sentences[ret.w]

(* C15: the constructor leaves the instance zeroed, and an update with a   *)
(* batch of k sentence pairs adds k to total_num_sentences and the sum of  *)
(* the k sentence scores to scores                                         *)
C15_UpdateAccumulates ==
    [][\A w \in Workers :
          /\ (~constructed[w] /\ constructed'[w]) =>
                 /\ scores'[w] = 0
                 /\ total_num_sentences'[w] = 0
                 /\ Tracking(w)' => List(w)' = << >>
          /\ (ret'.op = "update" /\ ret'.w = w /\ ret'.val = NoVal) =>
                 /\ total_num_sentences'[w] =
                        total_num_sentences[w] + Len(ret'.arg)
                 /\ scores'[w] = scores[w] + SumSeq(ret'.arg)]_vars

(* a second update, with a batch of two sentences of different scores *)
C15_Witness ==
    /\ ret.op = "update"
    /\ Len(ret.arg) = 2
    /\ ret.arg[1] # ret.arg[2]
    /\ total_num_sentences[ret.w] > Len(ret.arg)
    /\ scores[ret.w] >= 1

(* C16: no call changes the language, the tracking flag or a cost          *)
(* parameter of an instance once it is constructed, and the instance stays *)
(* constructed                                                             *)
C16_ConfigFrozen ==
    [][\A w \in Workers :
          constructed[w] => (constructed'[w] /\ ConfigOf(w)' = ConfigOf(w))]_vars

(* an instance that was updated, merged into and computed *)
C16_Witness ==
    /\ ret.op = "compute"
    /\ total_num_sentences[ret.w] >= 2
    /\ ConfigOf(ret.w) = <<"en", TRUE, DefaultAlpha, DefaultRho,
                          DefaultDeletion, DefaultInsertion>>
    /\ \E o \in Workers \ {ret.w} :
           Tracking(o) /\ IsSuffix(List(o), List(ret.w)) /\ List(o) # << >>

(* C18 (as stated): scores lies between 0 and total_num_sentences in every *)
(* instance, and compute on an instance that holds sentences returns a     *)
(* scalar between 0 and 1                                                  *)
C18_BoundedCorpusScore ==
    /\ \A w \in Workers :
           /\ 0 <= scores[w]
           /\ scores[w] <= Scale * total_num_sentences[w]
    /\ (ret.op = "compute" /\ total_num_sentences[ret.w] > 0) =>
           /\ ret.val.kind = "scalar"
           /\ 0 <= ret.val.num
           /\ ret.val.num <= ret.val.den

(* C19: an instance that does not track sentence scores never holds a      *)
(* sentence_eed list, and an update or a merge changes its scores and      *)
(* total_num_sentences exactly as it changes those of a tracking instance  *)
(* that holds the same totals                                              *)
C19_UntrackedStaysNone ==
    \A u \in Workers :
        (constructed[u] /\ ~Tracking(u)) =>
            /\ IsNone(sentence_eed[u])
            /\ \A t \in Workers :
                   (Tracking(t) /\ scores[t] = scores[u]
                        /\ total_num_sentences[t] = total_num_sentences[u]) =>
                       /\ \A b \in OrderBatches :
                              LET Su == update_state(Cur, u, b)
                                  St == update_state(Cur, t, b)
                              IN  /\ Su.scores[u] = St.scores[t]
                                  /\ Su.total_num_sentences[u] =
                                         St.total_num_sentences[t]
                                  /\ IsNone(Su.sentence_eed[u])
                       /\ \A ou \in Workers, ot \in Workers :
                              (Mergeable(u, ou) /\ Mergeable(t, ot)
                                   /\ scores[ou] = scores[ot]
                                   /\ total_num_sentences[ou] =
                                          total_num_sentences[ot]) =>
                                  LET Su == merge_state(Cur, u, ou)
                                      St == merge_state(Cur, t, ot)
                                  IN  /\ Su.scores[u] = St.scores[t]
                                      /\ Su.total_num_sentences[u] =
                                             St.total_num_sentences[t]
                                      /\ IsNone(Su.sentence_eed[u])

(* an instance without the list and a tracking one, fed the same sentences *)
C19_Witness ==
    \E u \in Workers, t \in Workers :
        /\ constructed[u]
        /\ ~Tracking(u)
        /\ Tracking(t)
        /\ total_num_sentences[u] >= 1
        /\ scores[u] >= 1
        /\ scores[t] = scores[u]
        /\ total_num_sentences[t] = total_num_sentences[u]
        /\ IsNone(sentence_eed[u])
        /\ ret.op \in {"compute", "merge"}

---------------------------------------------------------------------------
(* The aligner: the extended edit distance of one hypothesis and its       *)
(* references.  Sentences are sequences of symbols, costs are in tenths,   *)
(* a sentence score is the exact fraction num/den.                         *)

MaxStr == 2

Symbols == {"a", "b"}
Strings == SeqsUpTo(Symbols, MaxStr)

Cell(c, r) == [cost |-> c, reps |-> r]

(* the cheaper cell; on equal cost the one with fewer repetitions *)
Better(x, y) ==
    IF x.cost < y.cost \/ (x.cost = y.cost /\ x.reps <= y.reps) THEN x ELSE y

(* row 0: the empty hypothesis against each reference prefix (deletions) *)
FirstRow(ref, c) == [k \in 1..(Len(ref) + 1) |-> Cell((k - 1) * c[3], 0)]

(* the row of hypothesis symbol h from the previous row, without jumps;    *)
(* acc holds the cells already filled                                      *)
RECURSIVE FillRow(_, _, _, _, _)
FillRow(prev, h, ref, c, acc) ==
    IF Len(acc) = Len(ref) + 1 THEN acc
    ELSE LET k == Len(acc) + 1
             ins == Cell(prev[k].cost + c[4], prev[k].reps)
         IN  IF k = 1 THEN FillRow(prev, h, ref, c, <<ins>>)
             ELSE LET sub == Cell(prev[k - 1].cost
                                      + (IF h = ref[k - 1] THEN 0 ELSE c[4]),
                                  prev[k - 1].reps)
                      del == Cell(acc[k - 1].cost + c[3], acc[k - 1].reps)
                  IN  FillRow(prev, h, ref, c,
                              Append(acc, Better(sub, Better(del, ins))))

(* the first index of a cheapest cell of the row *)
MinIndex(row) ==
    CHOOSE k \in 1..Len(row) :
        /\ \A j \in 1..Len(row) : row[k].cost <= row[j].cost
        /\ \A j \in 1..(k - 1) : row[j].cost > row[k].cost

(* the long jump: from the cheapest cell of the row to any other cell at   *)
(* cost alpha; a jump backwards revisits the reference symbols it passes.  *)
(* On equal cost the transition without a jump is kept.                    *)
JumpRow(row, c) ==
    LET m == MinIndex(row)
    IN  [k \in 1..Len(row) |->
            LET j == Cell(row[m].cost + c[1],
                          row[m].reps + (IF k < m THEN m - k ELSE 0))
            IN  IF j.cost < row[k].cost THEN j ELSE row[k]]

RECURSIVE Rows(_, _, _, _)
Rows(hyp, ref, c, row) ==
    IF hyp = << >> THEN row
    ELSE Rows(Tail(hyp), ref, c, JumpRow(FillRow(row, Head(hyp), ref, c, << >>), c))

(* the last cell of the table: edit cost and repetition count *)
Alignment(hyp, ref, c) == Rows(hyp, ref, c, FirstRow(ref, c))[Len(ref) + 1]

Frac(n, d) == [num |-> n, den |-> d]

(* no clamping *)
NormalizeRaw(cell, n, c) ==
    LET reps == cell.reps
        d == IF n + reps >= 1 THEN n + reps ELSE 1
    IN  Frac(cell.cost + c[2] * reps, 10 * d)

(* (cost + rho * repetitions) / max(1, len(ref) + repetitions), clamped to *)
(* [0, 1]                                                                  *)
Normalize(cell, n, c) ==
    LET reps == cell.reps
        d == IF n + reps >= 1 THEN n + reps ELSE 1
        num == cell.cost + c[2] * reps
    IN  IF num > 10 * d THEN Frac(1, 1)
        ELSE IF num < 0 THEN Frac(0, 1)
        ELSE Frac(num, 10 * d)

eed_function(hyp, ref, c) == Normalize(Alignment(hyp, ref, c), Len(ref), c)

FracLeq(x, y) == x.num * y.den <= y.num * x.den

(* the score against the first reference only *)
best_of_first(hyp, refs, c) == eed_function(hyp, Head(refs), c)

(* the best (lowest) score over the references, kept while scanning them *)
RECURSIVE best_of(_, _, _)
best_of(hyp, refs, c) ==
    LET s == eed_function(hyp, Head(refs), c)
    IN  IF Len(refs) = 1 THEN s
        ELSE LET b == best_of(hyp, Tail(refs), c)
             IN  IF FracLeq(s, b) THEN s ELSE b

AsVal(x) == LET g == GCD(x.num, x.den) IN ScalarVal(x.num \div g, x.den \div g)

score_sentence_value(hyp, refs, c) ==
    IF refs = << >> THEN ErrVal("InvalidArgument")
    ELSE AsVal(best_of(hyp, refs, c))

(* score_sentence(hypothesis, references) *)
score_sentence ==
    /\ sentence_score = NoVal
    /\ sentence_score' = score_sentence_value(hypothesis, references, costs)
    /\ UNCHANGED <<hypothesis, references, costs>>
    /\ UNCHANGED <<cfgvars, accvars, ret, splitvars, iouvars>>

(* non-negative cost parameters <<alpha, rho, deletion, insertion>> *)
ValidCosts ==
    {DefaultCosts,
     <<0, DefaultRho, DefaultDeletion, DefaultInsertion>>,
     <<DefaultAlpha, DefaultInsertion, DefaultInsertion, DefaultDeletion>>,
     <<0, 0, 0, 0>>}

ReferenceLists == SeqsUpTo(Strings, 2)

InitAlign ==
    /\ hypothesis \in Strings
    /\ references \in ReferenceLists
    /\ costs \in ValidCosts
    /\ sentence_score = NoVal
    /\ InitCore
    /\ InitSplitIdle
    /\ InitIouIdle

NextAlign == score_sentence

SpecAlign == InitAlign /\ [][NextAlign]_vars

Scored == sentence_score.kind = "scalar"

Single(k) == eed_function(hypothesis, references[k], costs)

(* C12: the score of a hypothesis against a non-empty list of references   *)
(* is the minimum of its scores against each reference alone               *)
C12_MinOverReferences ==
    Scored =>
        /\ \E k \in 1..Len(references) :
               sentence_score = score_sentence_value(hypothesis, <<references[k]>>, costs)
        /\ \A k \in 1..Len(references) :
               FracLeq(sentence_score,
                       score_sentence_value(hypothesis, <<references[k]>>, costs))

(* two references, the second one strictly the better *)
C12_Witness ==
    /\ Scored
    /\ Len(references) = 2
    /\ ~FracLeq(Single(1), Single(2))
    /\ sentence_score = AsVal(Single(2))
    /\ sentence_score.num > 0

(* C13: a hypothesis equal to its only reference scores exactly 0, and     *)
(* with non-negative costs every sentence score lies in [0, 1]             *)
C13_IdentityAndRange ==
    Scored =>
        /\ references = <<hypothesis>> => sentence_score = ScalarVal(0, 1)
        /\ 0 <= sentence_score.num
        /\ sentence_score.num <= sentence_score.den
        /\ sentence_score.den >= 1

(* a hypothesis of two different symbols equal to its reference, scored    *)
(* with free jumps                                                         *)
C13_Witness ==
    /\ Scored
    /\ references = <<hypothesis>>
    /\ Len(hypothesis) >= 2
    /\ hypothesis[1] # hypothesis[2]
    /\ costs[1] = 0
    /\ sentence_score = ScalarVal(0, 1)

---------------------------------------------------------------------------
(* The deprecated wrapper iou of jaccard_index.  Tensors are names, floats *)
(* are in tenths, an Optional[int] is None or Some(n).                     *)

MaxCalls == 2

DefaultAbsentScore == 0
DefaultThreshold == 5

(* the external function, uninterpreted: its result names the function and *)
(* the arguments it received, in order                                     *)
jaccard_index(preds, target, ignore_index, absent_score, threshold, num_classes, reduction) ==
    [fn |-> "jaccard_index",
     args |-> <<preds, target, ignore_index, absent_score, threshold,
                num_classes, reduction>>]

IouArgs ==
    {<<p, t, ii, a, th, n, r>> :
        p \in {"preds1", "preds2"}, t \in {"target1", "target2"},
        ii \in {None, Some(0)}, a \in {DefaultAbsentScore, 10},
        th \in {DefaultThreshold, 10}, n \in {None, Some(2)},
        r \in {"elementwise_mean", "none"}}

(* passes threshold where absent_score belongs and the reverse *)
iou_swapped(a) ==
    /\ Len(warnings) < MaxCalls
    /\ iou_args' = a
    /\ warnings' = Append(warnings, "DeprecationWarning")
    /\ iou_ret' = <<jaccard_index(a[1], a[2], a[3], a[5], a[4], a[6], a[7])>>
    /\ UNCHANGED <<cfgvars, accvars, ret, splitvars, alignvars>>

(* iou(preds, target, ignore_index, absent_score, threshold, num_classes,  *)
(* reduction)                                                              *)
iou(a) ==
    /\ Len(warnings) < MaxCalls
    /\ iou_args' = a
    /\ warnings' = Append(warnings, "DeprecationWarning")
    /\ iou_ret' = <<jaccard_index(a[1], a[2], a[3], a[4], a[5], a[6], a[7])>>
    /\ UNCHANGED <<cfgvars, accvars, ret, splitvars, alignvars>>

NextIou == \E a \in IouArgs : iou(a)

SpecIou == Init /\ [][NextIou]_vars

(* C20: every call of iou emits one DeprecationWarning, returns the result *)
(* of jaccard_index for the same seven arguments in the same positions,    *)
(* and changes nothing else                                                *)
C20_PureDelegation ==
    [][/\ Len(warnings') = Len(warnings) + 1
       /\ warnings'[Len(warnings')] = "DeprecationWarning"
       /\ \A k \in 1..Len(warnings) : warnings'[k] = warnings[k]
       /\ Len(iou_ret') = 1
       /\ iou_ret'[1].fn = "jaccard_index"
       /\ Len(iou_ret'[1].args) = 7
       /\ \A k \in 1..7 : iou_ret'[1].args[k] = iou_args'[k]
       /\ UNCHANGED <<cfgvars, accvars, ret, splitvars, alignvars>>]_vars

(* a second call, with absent_score and threshold different and both       *)
(* optional integers given                                                 *)
C20_Witness ==
    /\ Len(warnings) = 2
    /\ iou_ret # << >>
    /\ iou_args[4] # iou_args[5]
    /\ iou_args[3] # None
    /\ iou_args[6] # None
    /\ iou_args[3] # iou_args[6]
    /\ iou_ret[1].args = iou_args

====
